---- MODULE Spec2Model ----
(***************************************************************************)
(* Model of app.py: a two-party message store kept in one SQLite table     *)
(* "messages", the queries that derive contact lists and threads from it,  *)
(* and the Streamlit handlers that insert into it and delete from it.      *)
(*                                                                         *)
(* Strings are finite sequences of character codes, so that Python's       *)
(* list.sort() on contact names is modelled by the lexicographic order it  *)
(* really uses.                                                            *)
(***************************************************************************)
EXTENDS Naturals, Sequences, FiniteSets

VARIABLES
    tableExists,  \* TRUE once CREATE TABLE IF NOT EXISTS messages has run
    messages,     \* rows of table messages as the shared connection sees them
    seq,          \* sqlite_sequence.seq of messages (AUTOINCREMENT high-water mark)
    now,          \* the UTC clock read by datetime.utcnow(): it ticks per INSERT
    disk,         \* the committed database: what a rollback returns to
    pc,           \* per session: where its script run stands
    obs,          \* per session: what its latest SELECT on a thread returned
    last,         \* history: the operation that completed last and how it ended
    issued,       \* history: the ids handed out by INSERT, in order
    wrote         \* history, per session: its latest append and what became of it

vars == <<tableExists, messages, seq, now, disk, pc, obs, last, issued, wrote>>

(***************************************************************************)
(* Bounds and input alphabets.                                             *)
(***************************************************************************)
MaxId == 3        \* no INSERT once MaxId INSERTs have been executed

Sessions == {1, 2}                      \* browser sessions sharing the connection

Empty == << >>                          \* the empty string ""
Names == { <<1>>, <<1, 2>>, <<2>> }     \* "a", "ab", "b": non-empty usernames
AllNames == Names \cup {Empty}
Hi == <<3>>                             \* some non-empty message text
Marker == <<91, 93>>                    \* stands for "[Started conversation]"
Texts == {Hi}

\* Arguments add_message is called with by a caller that keeps to non-empty
\* fields (every ordered pair of distinct users, and one user writing to
\* themselves), and by any caller at all.
AddArgs ==
    { args \in Names \X Names \X Texts : args[1] # args[2] \/ args[1] = <<1>> }

AnyArgs == AllNames \X AllNames \X (Texts \cup {Empty})

(***************************************************************************)
(* Helpers.                                                                *)
(***************************************************************************)
Range(s) == { s[i] : i \in DOMAIN s }

Max(a, b) == IF a >= b THEN a ELSE b

\* Python's str "<": lexicographic by code point, a proper prefix is smaller.
RECURSIVE StrLess(_, _)
StrLess(x, y) ==
    IF y = << >> THEN FALSE
    ELSE IF x = << >> THEN TRUE
    ELSE IF Head(x) # Head(y) THEN Head(x) < Head(y)
    ELSE StrLess(Tail(x), Tail(y))

\* list.sort() of a list of distinct strings: ascending by StrLess.
RECURSIVE SortStrings(_)
SortStrings(S) ==
    IF S = {} THEN << >>
    ELSE LET m == CHOOSE x \in S : \A y \in S \ {x} : StrLess(x, y)
         IN  <<m>> \o SortStrings(S \ {m})

\* ORDER BY id ASC over a set of rows (id is the primary key, hence unique).
RECURSIVE OrderById(_)
OrderById(R) ==
    IF R = {} THEN << >>
    ELSE LET m == CHOOSE x \in R : \A y \in R : x.id <= y.id
         IN  <<m>> \o OrderById(R \ {m})

MaxRowid(R) ==
    IF R = {} THEN 0 ELSE CHOOSE i \in { r.id : r \in R } : \A r \in R : r.id <= i

\* INTEGER PRIMARY KEY AUTOINCREMENT: one more than the largest rowid that has
\* ever been in the table, which sqlite_sequence remembers across deletions.
\* As NextId, had the column been INTEGER PRIMARY KEY without AUTOINCREMENT.
NextId_NoAutoincrement(R, sq) == MaxRowid(R) + 1

NextId(R, sq) == Max(MaxRowid(R), sq) + 1

(***************************************************************************)
(* The queries.                                                            *)
(***************************************************************************)
\* WHERE (sender = ? AND receiver = ?) OR (sender = ? AND receiver = ?)
\* with parameters (user_a, user_b, user_b, user_a).
\* As Between, had the WHERE clause named one direction only.
Between_OneWay(m, user_a, user_b) ==
    m.sender = user_a /\ m.receiver = user_b

Between(m, user_a, user_b) ==
    \/ m.sender = user_a /\ m.receiver = user_b
    \/ m.sender = user_b /\ m.receiver = user_a

\* As get_messages, had the query said ORDER BY id DESC.
get_messages_Desc(R, user_a, user_b) ==
    LET asc == OrderById({ m \in R : Between(m, user_a, user_b) })
    IN  [i \in 1 .. Len(asc) |-> asc[Len(asc) + 1 - i]]

get_messages(R, user_a, user_b) ==
    OrderById({ m \in R : Between(m, user_a, user_b) })

\* As ContactOf, had the CASE expression been the receiver column alone.
ContactOf_Receiver(m, username) == m.receiver

\* SELECT DISTINCT CASE WHEN sender = ? THEN receiver ELSE sender END
\* FROM messages WHERE sender = ? OR receiver = ?
ContactOf(m, username) == IF m.sender = username THEN m.receiver ELSE m.sender

\* As ContactRows, had the WHERE clause been "sender = ?" alone.
ContactRows_SenderOnly(R, username) ==
    { m \in R : m.sender = username }

ContactRows(R, username) ==
    { m \in R : m.sender = username \/ m.receiver = username }

get_conversations_for_user(R, username) ==
    SortStrings({ ContactOf(m, username) : m \in ContactRows(R, username) })

(***************************************************************************)
(* The statements that change the table.                                   *)
(***************************************************************************)
\* INSERT INTO messages (sender, receiver, content, ts) VALUES (?, ?, ?, ?)
\* As InsertRow, had the two parties been bound in the wrong order.
InsertRow_SwapsParties(R, sq, sender, receiver, content, ts) ==
    [id |-> NextId(R, sq), sender |-> receiver, receiver |-> sender,
     content |-> content, ts |-> ts]

InsertRow(R, sq, sender, receiver, content, ts) ==
    [id |-> NextId(R, sq), sender |-> sender, receiver |-> receiver,
     content |-> content, ts |-> ts]

\* DELETE FROM messages WHERE (sender = ? AND receiver = ?)
\*                         OR (sender = ? AND receiver = ?)
\* As DeleteRows, had the DELETE matched every row of username.
DeleteRows_AllOfUser(R, username, contact) ==
    { m \in R : ~ (m.sender = username \/ m.receiver = username) }

\* As DeleteRows, had the DELETE matched one direction only.
DeleteRows_OneWay(R, username, contact) ==
    { m \in R : ~ (m.sender = username /\ m.receiver = contact) }

DeleteRows(R, username, contact) ==
    { m \in R : ~ Between(m, username, contact) }

\* What the history variable records of a completed operation: which one,
\* which branch of its code ran, the error it ended with ("none": returned),
\* the values it handed back to its caller and the number of rows its DELETE
\* removed. No operation of the script hands a value back: add_message and
\* init_db end without a return statement, and the handlers are script code.
Outcome(op, branch, err) ==
    [op |-> op, branch |-> branch, err |-> err, ret |-> {}, removed |-> 0]

\* The outcome of the DELETE handler: cursor.rowcount holds the number of rows
\* removed; the handler does not read it and shows "Conversation deleted.".
Deleted(rowcount) ==
    [Outcome("delete_conversation", "deleted", "none") EXCEPT !.removed = rowcount]

Committed(R, sq) == [rows |-> R, seq |-> sq]

\* Where a session's script run stands: at is "idle" (between runs), "run"
\* (past init_db and the login guard), "listed" (past the contacts query),
\* "rendered" (past the thread query), "nochat" (no contact to render),
\* "insert_commit" or "delete_commit" (statement executed, commit pending).
\* pre holds the rows the session's pending DELETE removed.
At(at, user, contact, pre) ==
    [at |-> at, user |-> user, contact |-> contact, pre |-> pre]

Idle == At("idle", Empty, Empty, {})

\* What is recorded of a session's latest queries: whether a result differed
\* from what the committed database holds (dirty), whether it showed part of
\* a conversation another session was deleting (partial), and whether what
\* it showed was afterwards rolled back (lost).
Obs(dirty, partial, lost) ==
    [dirty |-> dirty, partial |-> partial, lost |-> lost]

NoObs == Obs(FALSE, FALSE, FALSE)

\* What is recorded of a session's latest add_message call: the arguments and
\* the id of its INSERT (sent, empty when there is none to follow), whether
\* the call has returned (its commit succeeded), and whether a later query
\* of the same session came back without the message (stale).
Write(sent, returned, stale) ==
    [sent |-> sent, returned |-> returned, stale |-> stale]

NoWrite == Write({}, FALSE, FALSE)

\* A session's INSERT has been executed: its call is followed from here on.
NoteInsert(s, sender, receiver, content) ==
    wrote' = [wrote EXCEPT ![s] =
                 Write({[id |-> seq', sender |-> sender, receiver |-> receiver,
                         content |-> content]}, FALSE, wrote[s].stale)]

\* A DELETE of the pair username, contact has been executed: appends to that
\* pair are followed no further.
NoteDelete(username, contact) ==
    wrote' = [t \in Sessions |->
                 IF \E w \in wrote[t].sent :
                       {w.sender, w.receiver} = {username, contact}
                   THEN Write({}, FALSE, wrote[t].stale)
                   ELSE wrote[t]]

\* Whether a thread query of user, contact lacks the session's own message.
ThreadLacks(s, rows, user, contact) ==
    /\ wrote[s].returned
    /\ \E w \in wrote[s].sent :
          /\ {w.sender, w.receiver} = {user, contact}
          /\ ~ \E m \in rows : /\ m.id = w.id
                                /\ m.sender = w.sender
                                /\ m.receiver = w.receiver
                                /\ m.content = w.content

\* Whether a contact query of user lacks the receiver of his own message.
ContactsLack(s, contacts, user) ==
    /\ wrote[s].returned
    /\ \E w \in wrote[s].sent :
          /\ w.sender = user
          /\ w.receiver \notin Range(contacts)

(***************************************************************************)
(* Initial state: an empty database file, nothing run yet.                 *)
(***************************************************************************)
Init ==
    /\ tableExists = FALSE
    /\ messages = {}
    /\ seq = 0
    /\ now = 0
    /\ disk = Committed({}, 0)
    /\ pc = [s \in Sessions |-> Idle]
    /\ obs = [s \in Sessions |-> NoObs]
    /\ last = Outcome("none", "none", "none")
    /\ issued = << >>
    /\ wrote = [s \in Sessions |-> NoWrite]

(***************************************************************************)
(* The operations, one caller at a time: each runs to its commit.          *)
(***************************************************************************)
\* As init_db, had the table been dropped and created anew on every run: the
\* rows and the table's sqlite_sequence entry go with it.
init_db_Recreates ==
    /\ tableExists' = TRUE
    /\ messages' = {}
    /\ seq' = 0
    /\ disk' = Committed(messages', seq')
    /\ last' = Outcome("init_db", "run", "none")
    /\ UNCHANGED <<now, pc, obs, issued, wrote>>

\* init_db(): CREATE TABLE IF NOT EXISTS messages (...); commit.
init_db ==
    /\ tableExists' = TRUE
    /\ last' = Outcome("init_db", "run", "none")
    /\ UNCHANGED <<messages, seq, now, disk, pc, obs, issued, wrote>>

\* The INSERT of add_message, with the clock's reading as ts. No argument is
\* examined before the INSERT, and TEXT NOT NULL accepts "".
ExecInsert(sender, receiver, content) ==
    /\ tableExists
    /\ now < MaxId
    /\ now' = now + 1
    /\ LET row == InsertRow(messages, seq, sender, receiver, content, now')
       IN  /\ messages' = messages \cup {row}
           /\ seq' = row.id
           /\ issued' = Append(issued, row.id)
    /\ UNCHANGED tableExists

\* add_message run alone: INSERT, then conn.commit().
add_message(sender, receiver, content) ==
    /\ ExecInsert(sender, receiver, content)
    /\ disk' = Committed(messages', seq')
    /\ last' = Outcome("add_message", "inserted", "none")
    /\ UNCHANGED <<pc, obs, wrote>>

\* As start_conversation, had add_message been called with (new_contact,
\* username) instead of (username, new_contact).
start_conversation_AsContact(username, new_contact) ==
    /\ username # Empty
    /\ new_contact # Empty /\ new_contact # username
    /\ ExecInsert(new_contact, username, Marker)
    /\ disk' = Committed(messages', seq')
    /\ last' = Outcome("start_conversation", "inserted", "none")
    /\ UNCHANGED <<pc, obs, wrote>>

\* As start_conversation, had the test "new_contact != username" been left out.
start_conversation_NoSelfCheck(username, new_contact) ==
    /\ username # Empty
    /\ new_contact # Empty
    /\ ExecInsert(username, new_contact, Marker)
    /\ disk' = Committed(messages', seq')
    /\ last' = Outcome("start_conversation", "inserted", "none")
    /\ UNCHANGED <<pc, obs, wrote>>

\* "Add / Open chat": runs only past the login guard (username non-empty);
\* inserts the placeholder when new_contact is non-empty and differs from
\* username, and otherwise does nothing and reports nothing.
start_conversation(username, new_contact) ==
    /\ username # Empty
    /\ IF new_contact # Empty /\ new_contact # username
         THEN /\ ExecInsert(username, new_contact, Marker)
              /\ disk' = Committed(messages', seq')
              /\ last' = Outcome("start_conversation", "inserted", "none")
              /\ UNCHANGED <<pc, obs, wrote>>
         ELSE /\ tableExists
              /\ last' = Outcome("start_conversation",
                                 IF new_contact = Empty THEN "blank" ELSE "self",
                                 "none")
              /\ UNCHANGED <<tableExists, messages, seq, now, disk, pc, obs, issued, wrote>>

\* "Delete conversation": runs past the login guard, only when the contact
\* list is non-empty, for the contact selected from that list; DELETE, then
\* conn.commit().
delete_conversation(username, contact) ==
    /\ tableExists
    /\ username # Empty
    /\ LET contacts == get_conversations_for_user(messages, username)
       IN  /\ contacts # << >>
           /\ contact \in Range(contacts)
    /\ messages' = DeleteRows(messages, username, contact)
    /\ disk' = Committed(messages', seq)
    /\ last' = Deleted(Cardinality(messages \ messages'))
    /\ UNCHANGED <<tableExists, seq, now, pc, obs, issued, wrote>>

AddStep == \E args \in AddArgs : add_message(args[1], args[2], args[3])

StartStep == \E u \in Names, c \in AllNames : start_conversation(u, c)

DeleteStep == \E u \in Names, c \in AllNames : delete_conversation(u, c)

Next ==
    \/ init_db
    \/ AddStep
    \/ StartStep
    \/ DeleteStep

Spec == Init /\ [][Next]_vars

\* The same, with add_message called with any strings, empty ones included.
AddAnyStep == \E args \in AnyArgs : add_message(args[1], args[2], args[3])

NextAny ==
    \/ init_db
    \/ AddAnyStep
    \/ StartStep
    \/ DeleteStep

SpecAny == Init /\ [][NextAny]_vars

(***************************************************************************)
(* The same code run by several sessions at once.  Every session's script  *)
(* thread uses the one connection get_conn caches: a statement one thread  *)
(* has executed and not yet committed is part of the connection's open     *)
(* transaction, which every other thread reads and any thread's            *)
(* conn.commit() commits.  Each statement is one step.                     *)
(***************************************************************************)
ConcNames == { <<1>>, <<2>> }

\* What may be typed into "Your username" and "Start chat with (username)".
TypedNames == ConcNames \cup {Empty}

\* str.strip() with no argument removes leading and trailing whitespace.
Space == 32

RECURSIVE LStrip(_)
LStrip(str) ==
    IF str # << >> /\ Head(str) = Space THEN LStrip(Tail(str)) ELSE str

RECURSIVE RStrip(_)
RStrip(str) ==
    IF str # << >> /\ str[Len(str)] = Space
      THEN RStrip(SubSeq(str, 1, Len(str) - 1))
      ELSE str

strip(str) == RStrip(LStrip(str))

\* What may be typed into "Write a message": "", " ", "  ", the text, and the
\* text with blanks around it.
MsgInputs ==
    { Empty, <<Space>>, <<Space, Space>>, Hi, <<Space>> \o Hi \o <<Space>> }

\* conn.commit() succeeding: the open transaction becomes the committed
\* database, so whatever any session has read is committed now.
CommitAll ==
    /\ disk' = Committed(messages, seq)
    /\ obs' = [s \in Sessions |-> [obs[s] EXCEPT !.dirty = FALSE]]

\* A script run starts: init_db() and its commit, then the login guard, which
\* stops the run when no username is typed.
BeginRun(s, u) ==
    /\ pc[s].at = "idle"
    /\ tableExists' = TRUE
    /\ pc' = [pc EXCEPT ![s] = IF u = Empty THEN Idle
                                             ELSE At("run", u, Empty, {})]
    /\ disk' = Committed(messages, seq)
    /\ obs' = [t \in Sessions |->
                 IF t = s THEN NoObs ELSE [obs[t] EXCEPT !.dirty = FALSE]]
    /\ UNCHANGED <<messages, seq, now, last, issued, wrote>>

\* As ExecAddOpen, had the test "new_contact != username" been left out.
ExecAddOpen_NoSelfCheck(s, new_contact) ==
    /\ pc[s].at = "run"
    /\ new_contact # Empty
    /\ ExecInsert(pc[s].user, new_contact, Marker)
    /\ NoteInsert(s, pc[s].user, new_contact, Marker)
    /\ pc' = [pc EXCEPT ![s].at = "insert_commit"]
    /\ UNCHANGED <<disk, obs, last>>

\* "Add / Open chat" in this run, with a contact name that is typed and is
\* not the user's own: the INSERT of the placeholder.
ExecAddOpen(s, new_contact) ==
    /\ pc[s].at = "run"
    /\ new_contact # Empty /\ new_contact # pc[s].user
    /\ ExecInsert(pc[s].user, new_contact, Marker)
    /\ NoteInsert(s, pc[s].user, new_contact, Marker)
    /\ pc' = [pc EXCEPT ![s].at = "insert_commit"]
    /\ UNCHANGED <<disk, obs, last>>

\* contacts = get_conversations_for_user(username), and the radio's choice.
ListContacts(s) ==
    /\ pc[s].at = "run"
    /\ LET contacts == get_conversations_for_user(messages, pc[s].user)
           dirty == contacts # get_conversations_for_user(disk.rows, pc[s].user)
       IN  /\ obs' = [obs EXCEPT ![s] = Obs(dirty, FALSE, FALSE)]
           /\ IF contacts = << >>
                THEN pc' = [pc EXCEPT ![s].at = "nochat"]
                ELSE \E i \in DOMAIN contacts :
                        pc' = [pc EXCEPT ![s] = At("listed", pc[s].user, contacts[i], {})]
           /\ wrote' = [wrote EXCEPT ![s].stale =
                            @ \/ ContactsLack(s, contacts, pc[s].user)]
    /\ UNCHANGED <<tableExists, messages, seq, now, disk, last, issued>>

\* messages = get_messages(username, contact).
ReadThread(s) ==
    /\ pc[s].at = "listed"
    /\ LET rows == Range(get_messages(messages, pc[s].user, pc[s].contact))
           dirty == rows # Range(get_messages(disk.rows, pc[s].user, pc[s].contact))
           partial == \E d \in Sessions \ {s} :
                         /\ pc[d].at = "delete_commit"
                         /\ rows \cap pc[d].pre # {}
                         /\ rows \cap pc[d].pre # pc[d].pre
       IN  /\ obs' = [obs EXCEPT ![s] = Obs(obs[s].dirty \/ dirty, partial, FALSE)]
           /\ wrote' = [wrote EXCEPT ![s].stale =
                            @ \/ ThreadLacks(s, rows, pc[s].user, pc[s].contact)]
    /\ pc' = [pc EXCEPT ![s].at = "rendered"]
    /\ UNCHANGED <<tableExists, messages, seq, now, disk, last, issued>>

\* As ExecSend, had the test been "if send and msg": a message of blanks
\* passes it and is stored stripped.
ExecSend_TestsUnstripped(s, msg) ==
    /\ pc[s].at = "rendered"
    /\ msg # Empty
    /\ ExecInsert(pc[s].user, pc[s].contact, strip(msg))
    /\ NoteInsert(s, pc[s].user, pc[s].contact, strip(msg))
    /\ pc' = [pc EXCEPT ![s].at = "insert_commit"]
    /\ UNCHANGED <<disk, obs, last>>

\* "Send" with a message that is non-empty once stripped: the INSERT of the
\* stripped message.
ExecSend(s, msg) ==
    /\ pc[s].at = "rendered"
    /\ strip(msg) # Empty
    /\ ExecInsert(pc[s].user, pc[s].contact, strip(msg))
    /\ NoteInsert(s, pc[s].user, pc[s].contact, strip(msg))
    /\ pc' = [pc EXCEPT ![s].at = "insert_commit"]
    /\ UNCHANGED <<disk, obs, last>>

\* "Delete conversation": the DELETE.
ExecDelete(s) ==
    /\ pc[s].at = "rendered"
    /\ messages' = DeleteRows(messages, pc[s].user, pc[s].contact)
    /\ pc' = [pc EXCEPT ![s] = At("delete_commit", pc[s].user, pc[s].contact,
                                  messages \ messages')]
    /\ NoteDelete(pc[s].user, pc[s].contact)
    /\ UNCHANGED <<tableExists, seq, now, disk, obs, last, issued>>

\* conn.commit() after the session's statement returns; the handler reruns.
Commit(s) ==
    /\ pc[s].at \in {"insert_commit", "delete_commit"}
    /\ CommitAll
    /\ last' = Outcome(IF pc[s].at = "insert_commit" THEN "add_message"
                                                     ELSE "delete_conversation",
                       "committed", "none")
    /\ wrote' = [wrote EXCEPT ![s].returned =
                     @ \/ (pc[s].at = "insert_commit" /\ wrote[s].sent # {})]
    /\ pc' = [pc EXCEPT ![s] = Idle]
    /\ UNCHANGED <<tableExists, messages, seq, now, issued>>

\* conn.commit() raises sqlite3.OperationalError (disk full, I/O error,
\* database locked): SQLite either rolls the open transaction back or leaves
\* it open; the script run ends with the exception.
CommitFails(s, rolledBack) ==
    /\ pc[s].at \in {"insert_commit", "delete_commit"}
    /\ IF rolledBack
         THEN /\ messages' = disk.rows
              /\ seq' = disk.seq
              /\ obs' = [t \in Sessions |->
                           [obs[t] EXCEPT !.lost = obs[t].dirty, !.dirty = FALSE]]
         ELSE UNCHANGED <<messages, seq, obs>>
    /\ wrote' = [wrote EXCEPT ![s] =
                     IF pc[s].at = "insert_commit"
                       THEN Write({}, FALSE, wrote[s].stale)
                       ELSE @]
    /\ last' = Outcome(IF pc[s].at = "insert_commit" THEN "add_message"
                                                     ELSE "delete_conversation",
                       IF rolledBack THEN "rolled back" ELSE "left open",
                       "OperationalError")
    /\ pc' = [pc EXCEPT ![s] = Idle]
    /\ UNCHANGED <<tableExists, now, disk, issued>>

\* The run ends with no button pressed.
EndRun(s) ==
    /\ pc[s].at \in {"rendered", "nochat"}
    /\ pc' = [pc EXCEPT ![s] = Idle]
    /\ UNCHANGED <<tableExists, messages, seq, now, disk, obs, last, issued, wrote>>

\* The sessions' steps when every conn.commit() succeeds.
NextConc ==
    \E s \in Sessions :
       \/ \E u \in TypedNames : BeginRun(s, u)
       \/ \E c \in TypedNames : ExecAddOpen(s, c)
       \/ ListContacts(s)
       \/ ReadThread(s)
       \/ \E msg \in MsgInputs : ExecSend(s, msg)
       \/ ExecDelete(s)
       \/ Commit(s)
       \/ EndRun(s)

SpecConc == Init /\ [][NextConc]_vars

\* The same, where a conn.commit() may also raise.
NextFail ==
    \/ NextConc
    \/ \E s \in Sessions, rolledBack \in BOOLEAN : CommitFails(s, rolledBack)

SpecFail == Init /\ [][NextFail]_vars

(***************************************************************************)
(* Properties of the store and the handlers, one caller at a time.         *)
(***************************************************************************)
HasEmptyField(args) == args[1] = Empty \/ args[2] = Empty \/ args[3] = Empty

\* The stored messages of the unordered pair {a, b}.
PairRows(R, a, b) == { m \in R : {m.sender, m.receiver} = {a, b} }

\* The identities that are the other party of some stored message of u.
OtherParties(R, u) ==
    { x \in AllNames : \E m \in R : \/ m.sender = u /\ m.receiver = x
                                    \/ m.receiver = u /\ m.sender = x }

Contacts(R, u) == Range(get_conversations_for_user(R, u))

\* C1: for non-empty sender, receiver and content, right after
\* add_message(sender, receiver, content) the thread of (sender, receiver) is
\* non-empty and its last element has that sender, receiver and content.
C1_AppendIsLastOfThread ==
    [][\A args \in AddArgs :
          (/\ last'.op = "add_message"
           /\ ~ HasEmptyField(args)
           /\ add_message(args[1], args[2], args[3]))
          => LET thread == get_messages(messages', args[1], args[2])
             IN  /\ thread # << >>
                 /\ thread[Len(thread)].sender = args[1]
                 /\ thread[Len(thread)].receiver = args[2]
                 /\ thread[Len(thread)].content = args[3]]_vars

\* An add_message has just returned, and the thread it extended already held
\* an older message.
C1_Witness ==
    /\ last.op = "add_message"
    /\ \E m \in messages :
          /\ m.id = seq
          /\ m.sender # Empty /\ m.receiver # Empty /\ m.content = Hi
          /\ Len(get_messages(messages, m.sender, m.receiver)) >= 2

\* C2: the ids handed out by INSERT are strictly increasing in the order they
\* were handed out, whatever was deleted in between: no id is assigned twice.
C2_IdsStrictlyIncrease ==
    \A i, j \in DOMAIN issued : i < j => issued[i] < issued[j]

\* An append into a table that deletion had emptied: one row, not the first id.
C2_Witness ==
    /\ last.op = "add_message"
    /\ Cardinality(messages) = 1
    /\ Len(issued) >= 2

\* C3: get_messages(a, b) holds exactly the stored messages of (a, b) and
\* (b, a), each once, in strictly ascending id order; it is the empty
\* sequence when there are none.
C3_ThreadIsExactAndOrdered ==
    \A a, b \in AllNames :
       LET thread == get_messages(messages, a, b)
           wanted == { m \in messages :
                         <<m.sender, m.receiver>> \in { <<a, b>>, <<b, a>> } }
       IN  /\ Range(thread) = wanted
           /\ Len(thread) = Cardinality(wanted)
           /\ \A i, j \in DOMAIN thread : i < j => thread[i].id < thread[j].id

\* A thread of two messages beside a message of another pair.
C3_Witness ==
    \E a, b \in Names :
       /\ a # b
       /\ Len(get_messages(messages, a, b)) = 2
       /\ Cardinality(messages) = 3

\* C4: get_messages(a, b) and get_messages(b, a) are the same sequence.
C4_ThreadIsSymmetric ==
    \A a, b \in AllNames :
       get_messages(messages, a, b) = get_messages(messages, b, a)

\* A thread that holds a message in each direction.
C4_Witness ==
    \E a, b \in Names :
       /\ a # b
       /\ \E m, n \in Range(get_messages(messages, a, b)) :
             m.sender = a /\ n.sender = b

\* C5: get_conversations_for_user(u) lists exactly the other parties of u's
\* stored messages, in strictly ascending lexicographic order (so without
\* duplicates); it is empty when u has no messages.
C5_ContactsAreSortedOtherParties ==
    \A u \in AllNames :
       LET contacts == get_conversations_for_user(messages, u)
       IN  /\ Range(contacts) = OtherParties(messages, u)
           /\ \A i, j \in DOMAIN contacts : i < j => StrLess(contacts[i], contacts[j])

\* "a" has sent to "b", received from "ab" and sent to "b" again: the list
\* is ["ab", "b"].
C5_Witness ==
    /\ get_conversations_for_user(messages, <<1>>) = << <<1, 2>>, <<2>> >>
    /\ Cardinality(ContactRows(messages, <<1>>)) = 3
    /\ \E m \in messages : m.sender = <<1, 2>> /\ m.receiver = <<1>>

\* C6: "Delete conversation" of (u, c) removes exactly the stored messages of
\* the unordered pair {u, c}: the thread of (u, c) is empty afterwards and
\* every other row is still stored, unchanged in every column.
C6_DeleteRemovesExactlyThePair ==
    [][\A u \in Names, c \in AllNames :
          (last'.op = "delete_conversation" /\ delete_conversation(u, c))
          => /\ get_messages(messages', u, c) = << >>
             /\ messages' = messages \ PairRows(messages, u, c)]_vars

\* A conversation has just been deleted and messages of another pair remain.
C6_Witness ==
    /\ last.op = "delete_conversation"
    /\ messages # {}

\* C7: right after "Delete conversation" of (u, c), c is not a contact of u
\* and u is not a contact of c, and every other contact of u and of c is
\* still listed.
C7_DeleteUnlistsOnlyThePair ==
    [][\A u \in Names, c \in AllNames :
          (last'.op = "delete_conversation" /\ delete_conversation(u, c))
          => LET ofU == Contacts(messages', u)
                 ofC == Contacts(messages', c)
             IN  /\ c \notin ofU
                 /\ u \notin ofC
                 /\ Contacts(messages, u) \ {c} \subseteq ofU
                 /\ Contacts(messages, c) \ {u} \subseteq ofC]_vars

\* A two-message conversation has just been deleted and a third message, of
\* another pair, keeps its parties in each other's lists.
C7_Witness ==
    /\ last.op = "delete_conversation"
    /\ Len(issued) = 3
    /\ \E m \in messages :
          /\ messages = {m}
          /\ m.receiver \in Contacts(messages, m.sender)

\* C9: add_message with an empty sender, receiver or content ends with a
\* ValidationError and changes nothing: no row is inserted, no id is used.
C9_EmptyFieldIsRejected ==
    [][\A args \in AnyArgs :
          (HasEmptyField(args) /\ add_message(args[1], args[2], args[3]))
          => /\ last'.err = "ValidationError"
             /\ messages' = messages
             /\ seq' = seq]_vars

C13_InitDbIsIdempotent ==
    [][(last'.op = "init_db" /\ init_db)
          => /\ messages' = messages
             /\ seq' = seq
             /\ disk' = disk
             /\ tableExists'
             /\ last'.err = "none"
             /\ \A i \in Range(issued') : NextId(messages', seq') > i]_vars

\* init_db has just run on a table that holds a message and has lost one.
C13_Witness ==
    /\ last.op = "init_db"
    /\ messages # {}
    /\ Len(issued) > Cardinality(messages)

\* C17: the placeholder is added by "Add / Open chat" only if the user and
\* the contact have no message yet: a thread never holds two placeholders
\* appended by the same user, and "Add / Open chat" for a pair that already
\* has messages leaves the table unchanged.
C17_PlaceholderOnlyForNewPair ==
    [][/\ \A u, c \in Names :
             Cardinality({ m \in messages' : /\ m.sender = u
                                             /\ m.receiver = c
                                             /\ m.content = Marker }) <= 1
       /\ \A u, c \in Names :
             (/\ last'.op = "start_conversation"
              /\ get_messages(messages, u, c) # << >>
              /\ start_conversation(u, c))
             => messages' = messages]_vars

\* C18: a message never changes once written. A step keeps every row whose
\* id it keeps as it was (sender, receiver, content and ts), gives a new row
\* an id that no row has ever had, and changes the table only by inserting
\* one new row or by removing all rows of one unordered pair; so two states
\* holding a message of the same id hold the same message.
C18_MessagesAreImmutable ==
    [][/\ \A m \in messages, n \in messages' : m.id = n.id => m = n
       /\ \A n \in messages' \ messages : \A i \in Range(issued) : n.id > i
       /\ \/ messages' = messages
          \/ \E n \in messages' \ messages : messages' = messages \cup {n}
          \/ \E a, b \in AllNames :
                /\ PairRows(messages, a, b) # {}
                /\ messages' = messages \ PairRows(messages, a, b)]_vars

\* A message has been appended beside one that outlived a deletion.
C18_Witness ==
    /\ last.op = "add_message"
    /\ Cardinality(messages) = 2
    /\ Len(issued) = 3

\* C19: being a contact is symmetric and the same as having a thread: for
\* all identities a and b, b is in a's contact list exactly if a is in b's,
\* and exactly if the thread of a and b is non-empty.
C19_ContactIffThread ==
    \A a, b \in AllNames :
       /\ (b \in Contacts(messages, a)) <=> (a \in Contacts(messages, b))
       /\ (b \in Contacts(messages, a)) <=> (get_messages(messages, a, b) # << >>)

\* One pair has a thread written by one side only, another pair has none.
C19_Witness ==
    \E a, b, c \in Names :
       /\ get_messages(messages, a, b) # << >>
       /\ \A m \in PairRows(messages, a, b) : m.sender = a
       /\ a # c /\ b # c
       /\ get_messages(messages, a, c) = << >>
       /\ Len(issued) > Cardinality(messages)

(***************************************************************************)
(* Properties of concurrent sessions on the shared connection.             *)
(***************************************************************************)
\* C8: with sessions deleting, appending and reading through the shared
\* connection, a reader sees a conversation under deletion whole or not at
\* all, and never sees a deletion or an append that is then not committed.
C8_ReadersSeeWholeCommittedData ==
    \A s \in Sessions : ~ obs[s].partial /\ ~ obs[s].lost


\* C14: once a session's add_message has returned, every later thread query
\* of that session for the pair holds the message, and every later contact
\* query for the sender holds the receiver, as long as no session has
\* deleted the pair's conversation in between.
C14_OwnWriteIsRead == \A s \in Sessions : ~ wrote[s].stale


\* C15: whatever the sessions do through the page (log in under any
\* username, "Add / Open chat", "Send", "Delete conversation", rerun), no
\* message from a user to himself is ever stored, pending or committed, and
\* no user is in his own contact list.
C15_NoSelfMessageThroughThePage ==
    /\ \A m \in messages \cup disk.rows : m.sender # m.receiver
    /\ \A u \in AllNames : u \notin Contacts(messages, u)

\* Both users have written to each other, one of them with "Send".
C15_Witness ==
    \E m, n \in messages :
       /\ m.content = Hi
       /\ n.sender = m.receiver
       /\ n.receiver = m.sender


\* C16: in every state the sessions reach through the page, every stored
\* message, pending or committed, has a non-empty sender, a non-empty
\* receiver and a non-empty content.
C16_NoEmptyFieldThroughThePage ==
    \A m \in messages \cup disk.rows :
       /\ m.sender # Empty
       /\ m.receiver # Empty
       /\ m.content # Empty

\* A placeholder and a message sent from the form are committed.
C16_Witness ==
    /\ \E m \in disk.rows : m.content = Marker
    /\ \E m \in disk.rows : m.content = Hi

====
